---- MODULE Spec2Model ----
(***************************************************************************)
(* A model of the thrush backend: the code generator (Compiler), the build *)
(* orchestrator (FileBuilder) and the diagnostic reporter (Diagnostic).    *)
(*                                                                         *)
(* Compiler::codegen is a recursive depth-first traversal.  The model      *)
(* lowers a unit as the sequence of events of that traversal: a leaf node  *)
(* is one step, a Block / Function / EntryPoint node is an entering step   *)
(* and a leaving step, with the open nodes kept in `stack` (the call stack *)
(* of codegen).  The unit itself is the input: every step draws the next   *)
(* node from the bounded node sets below.                                  *)
(***************************************************************************)
EXTENDS Integers, Sequences, FiniteSets, TLC

VARIABLES
    \* Compiler (src/src/backend/compiler.rs:32-41) and the module it builds
    locals,      \* Vec<HashMap<name, Value>>: the frame stack
    scope,       \* usize: the scope counter
    globals,     \* HashMap<name, Value>: the flat module-scope map
    functions,   \* the module's functions, in creation order
    modGlobals,  \* the module's global variables, in creation order
    builder,     \* index in `functions` of the block the builder appends to; 0 = unset
    stack,       \* the open Block / Function / EntryPoint nodes (codegen's recursion)
    nodes,       \* number of nodes lowered so far
    last,        \* the node event taken last, with what it resolved (observation)
    panicked,    \* the process was terminated by panic!/todo!/unwrap/overflow
    finished,    \* Compiler::start left its loop (is_end)
    hist,        \* history of the declarations lowered (read by no action's guard)
    \* FileBuilder (compiler.rs:687-801) and what it acts on
    options,     \* Options: the flags FileBuilder::build reads
    installed,   \* which external tools a spawn finds: [clang, opt]
    files,       \* the files of the output directory
    pc,          \* FileBuilder::build's position
    trace,       \* the external effects of the build so far, in order
    outcome,     \* how the build ended: "running", "returned", "reported", "panicked"
    \* Diagnostic (diagnostic.rs:7-11) and the terminal it prints to
    lines,       \* Vec<String>: the source file's lines, each a sequence of characters
    buffer,      \* String
    drawer,      \* String
    printed,     \* what println! has written, in order
    reports,     \* the errors Diagnostic::report was called with so far
    dpanicked    \* an index past `lines` or an overflow terminated the process

cvars == <<locals, scope, globals, functions, modGlobals, builder, stack, nodes,
           last, panicked, finished, hist>>
bvars == <<options, installed, files, pc, trace, outcome>>
dvars == <<lines, buffer, drawer, printed, reports, dpanicked>>

-----------------------------------------------------------------------------
(* Bounds of the model. *)

\* nodes lowered per unit
MaxNodes == 5
\* open nodes (nesting depth of Block / Function / EntryPoint)
MaxDepth == 3
\* arguments of one print node
MaxArgs == 1
\* variable names, numeric kinds and function names drawn by the input
NumNames == 1
NumIntKinds == 1
NumFloatKinds == 1
NumFuncNames == 2
\* lines of the source file a Diagnostic is built on
MaxLines == 3
\* errors reported to one Diagnostic
MaxReports == 1

-----------------------------------------------------------------------------
(* DataTypes, as the matches of compiler.rs enumerate them. *)

IntKindSeq == <<"I32", "U8", "I8", "I16", "I64", "U16", "U32", "U64">>
FloatKindSeq == <<"F64", "F32">>
IntKinds == {IntKindSeq[i] : i \in 1..Len(IntKindSeq)}
FloatKinds == {FloatKindSeq[i] : i \in 1..Len(FloatKindSeq)}
NumKinds == IntKinds \cup FloatKinds

Min(a, b) == IF a < b THEN a ELSE b
SetMax(S) == CHOOSE m \in S : \A e \in S : e <= m

\* the kinds, names and literals the input is drawn from
InIntKinds == {IntKindSeq[i] : i \in 1..Min(NumIntKinds, Len(IntKindSeq))}
InFloatKinds == {FloatKindSeq[i] : i \in 1..Min(NumFloatKinds, Len(FloatKindSeq))}
InNumKinds == InIntKinds \cup InFloatKinds
\* "Void" stands for any DataTypes variant outside the twelve matched ones
InKinds == InNumKinds \cup {"String", "Bool", "Void"}
NameSeq == <<"x", "y", "z", "w">>
VarNames == {NameSeq[i] : i \in 1..Min(NumNames, Len(NameSeq))}
FuncNameSeq == <<"printf", "f", "main", "g">>
FuncNames == {FuncNameSeq[i] : i \in 1..Min(NumFuncNames, Len(FuncNameSeq))}
StrLits == {"s"}
NumLits == {7}

-----------------------------------------------------------------------------
(* Instruction (compiler.rs:591-634): the node forms the model draws. *)

Null == [node |-> "Null", name |-> "", kind |-> "Void", num |-> 0]
Integer(kind, num) == [node |-> "Integer", name |-> "", kind |-> kind, num |-> num]
String(text) == [node |-> "String", name |-> text, kind |-> "String", num |-> 0]
Boolean(b) == [node |-> "Boolean", name |-> "", kind |-> "Bool", num |-> IF b THEN 1 ELSE 0]
RefVar(name, kind) == [node |-> "RefVar", name |-> name, kind |-> kind, num |-> 0]

\* initializers of a Var node (None is lowered as Instruction::Null, compiler.rs:116)
VarValues ==
    {Null} \cup {Integer(k, n) : k \in InNumKinds, n \in NumLits}
           \cup {String(s) : s \in StrLits} \cup {Boolean(b) : b \in BOOLEAN}
\* arguments of a print node
PrintArgs ==
    {String(s) : s \in StrLits} \cup {Integer(k, n) : k \in InIntKinds, n \in NumLits}
        \cup {RefVar(n, k) : n \in VarNames, k \in InKinds} \cup {Null}
ArgLists == UNION {[1..n -> PrintArgs] : n \in 0..MaxArgs}
\* operands of a Return node
ReturnValues ==
    {Null, Boolean(TRUE)} \cup {Integer(k, n) : k \in InIntKinds, n \in NumLits}
        \cup {String(s) : s \in StrLits}

-----------------------------------------------------------------------------
(* Lowered values and emitted instructions. *)

\* ThrushBasicValueEnum {kind, value}: the value is named by where it was made
Value(kind, tag, fn, pos) == [kind |-> kind, tag |-> tag, fn |-> fn, pos |-> pos]
\* the result of the load instruction at position pos of function fn
Loaded(kind, fn, pos) == Value(kind, "load", fn, pos)
\* the address of the module global number g
GlobalPtr(kind, g) == Value(kind, "global", 0, g)
\* an immediate constant
Const(kind, num) == Value(kind, "const", 0, num)

Instr(op, kind, num, align, args) ==
    [op |-> op, kind |-> kind, num |-> num, align |-> align, args |-> args]

EmptyFrame == [n \in {} |-> Null]
Insert(map, name, v) ==
    [n \in (DOMAIN map) \cup {name} |-> IF n = name THEN v ELSE map[n]]

-----------------------------------------------------------------------------
(* The module: functions by name (LLVM renames a second function of a name) *)

SameName(name) == {i \in 1..Len(functions) : functions[i].name = name}

\* Module::get_function(name): the function that holds the name, 0 for None
get_function(name) ==
    IF \E i \in SameName(name) : functions[i].dup = 0
    THEN CHOOSE i \in SameName(name) : functions[i].dup = 0
    ELSE 0

\* Module::add_function(name, ..): a new function; a taken name gets a suffix
add_function(fns, name, origin, linkage) ==
    Append(fns, [name |-> name,
                 dup |-> Cardinality({i \in 1..Len(fns) : fns[i].name = name}),
                 origin |-> origin, linkage |-> linkage, body |-> <<>>])

\* Builder::build_*: append at the builder's position
Emit(fns, instrs) == [fns EXCEPT ![builder].body = @ \o instrs]

add_global(name, init, constant) ==
    Append(modGlobals, [name |-> name, init |-> init, constant |-> constant])

-----------------------------------------------------------------------------
(* Compiler::compile: the state after construction. *)

\* numLeft: the numeric names whose declaring Block has been left and that no
\* later declaration bound again; flatLeft: the string / boolean names whose
\* declaring Block has been left; flatDeclared: every string / boolean name
\* a declaration has bound; numDeclared: every numeric name a declaration has
\* bound
NoHistory == [numLeft |-> {}, flatLeft |-> {}, flatDeclared |-> {}, numDeclared |-> {}]

CompilerInit ==
    /\ locals = <<EmptyFrame>>
    /\ scope = 0
    /\ globals = EmptyFrame
    /\ functions = <<>>
    /\ modGlobals = <<>>
    /\ builder = 0
    /\ stack = <<>>
    /\ nodes = 0
    /\ last = [ev |-> "init", name |-> "", kind |-> "Void", args |-> <<>>]
    /\ panicked = FALSE
    /\ finished = FALSE
    /\ hist = NoHistory

Event(ev, name, kind, args) == [ev |-> ev, name |-> name, kind |-> kind, args |-> args]

\* a node can be lowered here: the unit's top level (Compiler::start), a statement
\* of an open Block, or the body of an open Function / EntryPoint
CanLower ==
    /\ ~panicked /\ ~finished
    /\ nodes < MaxNodes
    /\ IF stack = <<>> THEN TRUE
       ELSE IF stack[Len(stack)].node = "Block" THEN TRUE
       ELSE ~stack[Len(stack)].bodyDone

\* the enclosing node after a child returned: a Function / EntryPoint has its body
Returned(stk) ==
    IF stk # <<>> /\ stk[Len(stk)].node # "Block"
    THEN [stk EXCEPT ![Len(stk)].bodyDone = TRUE]
    ELSE stk

\* an open node.  History, read by no action's guard: numDecl maps the numeric
\* names declared directly in this Block to the value their last declaration
\* loaded, flatDecl holds the string / boolean names declared directly in it,
\* inner tells that a Function or EntryPoint node was lowered inside this node
Open(node, fn, ret) ==
    [node |-> node, fn |-> fn, ret |-> ret, bodyDone |-> FALSE,
     numDecl |-> EmptyFrame, flatDecl |-> {}, inner |-> FALSE]
\* a Function / EntryPoint node is entered inside every open node
Inside(stk) == [i \in 1..Len(stk) |-> [stk[i] EXCEPT !.inner = TRUE]]

\* panic!, todo!, unreachable!, unimplemented!, a failed unwrap, an arithmetic
\* overflow or an index past a vector: the process terminates and the Compiler
\* with the module it was building is gone; `last` keeps the node that aborted
Panic(ev) ==
    /\ panicked' = TRUE
    /\ last' = ev
    /\ locals' = <<>> /\ scope' = 0 /\ globals' = EmptyFrame
    /\ functions' = <<>> /\ modGlobals' = <<>> /\ builder' = 0
    /\ stack' = <<>> /\ nodes' = 0
    /\ UNCHANGED <<finished, hist>>

-----------------------------------------------------------------------------
(* Compiler::get_local and Compiler::get_global. *)

\* the frame indices (0-based) get_local visits: (0..self.scope - 1).rev()
LocalRange == 0..(scope - 2)
LocalHits(name) == {i \in LocalRange : name \in DOMAIN locals[i + 1]}
\* scope = 0: self.scope - 1 overflows (debug) or the wrapped range indexes past
\* the vector (release); no hit: panic!()
get_local_panics(name) == scope = 0 \/ LocalHits(name) = {}
get_local_frame(name) == SetMax(LocalHits(name))
get_local(name) == locals[get_local_frame(name) + 1][name]

get_global_panics(name) == name \notin DOMAIN globals
get_global(name) == globals[name]

-----------------------------------------------------------------------------
(* Compiler::codegen, one action per node form. *)

\* Instruction::Block, entering (compiler.rs:72-74)
codegen_Block_enter ==
    /\ CanLower
    /\ Len(stack) < MaxDepth
    /\ scope' = scope + 1
    /\ locals' = Append(locals, EmptyFrame)
    /\ stack' = Append(stack, Open("Block", 0, "None"))
    /\ nodes' = nodes + 1
    /\ last' = Event("Block", "", "Void", <<>>)
    /\ UNCHANGED <<globals, functions, modGlobals, builder, panicked, finished, hist>>
    /\ UNCHANGED <<bvars, dvars>>

\* (variant) the Block is left without popping its frame
codegen_Block_exit_unpopped ==
    /\ ~panicked /\ ~finished
    /\ stack # <<>> /\ stack[Len(stack)].node = "Block"
    /\ scope' = scope - 1
    /\ locals' = locals
    /\ stack' = Returned(SubSeq(stack, 1, Len(stack) - 1))
    /\ hist' = [hist EXCEPT !.numLeft = @ \cup DOMAIN stack[Len(stack)].numDecl,
                            !.flatLeft = @ \cup stack[Len(stack)].flatDecl]
    /\ last' = Event("BlockExit", "", "Void", <<>>)
    /\ UNCHANGED <<globals, functions, modGlobals, builder, nodes, panicked, finished>>
    /\ UNCHANGED <<bvars, dvars>>

\* Instruction::Block, leaving after the last statement (compiler.rs:80-81)
codegen_Block_exit ==
    /\ ~panicked /\ ~finished
    /\ stack # <<>> /\ stack[Len(stack)].node = "Block"
    /\ scope' = scope - 1
    /\ locals' = SubSeq(locals, 1, Len(locals) - 1)
    /\ stack' = Returned(SubSeq(stack, 1, Len(stack) - 1))
    /\ hist' = [hist EXCEPT !.numLeft = @ \cup DOMAIN stack[Len(stack)].numDecl,
                            !.flatLeft = @ \cup stack[Len(stack)].flatDecl]
    /\ last' = Event("BlockExit", "", "Void", <<>>)
    /\ UNCHANGED <<globals, functions, modGlobals, builder, nodes, panicked, finished>>
    /\ UNCHANGED <<bvars, dvars>>

\* Instruction::Function, up to the lowering of the body (compiler.rs:451-483)
emit_function ==
    /\ CanLower
    /\ Len(stack) < MaxDepth
    /\ \E name \in FuncNames, is_public \in BOOLEAN, return_kind \in {"None", "I32"} :
          /\ functions' = add_function(functions, name, "Function",
                                       IF is_public THEN "External" ELSE "Private")
          /\ builder' = Len(functions) + 1
          /\ stack' = Append(Inside(stack),
                             Open("Function", Len(functions) + 1, return_kind))
          /\ last' = Event("Function", name, return_kind, <<>>)
    /\ nodes' = nodes + 1
    /\ UNCHANGED <<locals, scope, globals, modGlobals, panicked, finished, hist>>
    /\ UNCHANGED <<bvars, dvars>>

\* Instruction::Function, after the body (compiler.rs:485-487)
emit_function_end ==
    /\ ~panicked /\ ~finished
    /\ stack # <<>> /\ stack[Len(stack)].node = "Function" /\ stack[Len(stack)].bodyDone
    /\ functions' = IF stack[Len(stack)].ret = "None"
                    THEN Emit(functions, <<Instr("ret", "Void", 0, 0, <<>>)>>)
                    ELSE functions
    /\ stack' = Returned(SubSeq(stack, 1, Len(stack) - 1))
    /\ last' = Event("FunctionEnd", "", "Void", <<>>)
    /\ UNCHANGED <<locals, scope, globals, modGlobals, builder, nodes, panicked,
                   finished, hist>>
    /\ UNCHANGED <<bvars, dvars>>

\* Compiler::emit_main, then the lowering of the body (compiler.rs:119-121, 138-145)
emit_main ==
    /\ CanLower
    /\ Len(stack) < MaxDepth
    /\ functions' = add_function(functions, "main", "EntryPoint", "External")
    /\ builder' = Len(functions) + 1
    /\ stack' = Append(Inside(stack), Open("EntryPoint", Len(functions) + 1, "I32"))
    /\ nodes' = nodes + 1
    /\ last' = Event("EntryPoint", "main", "I32", <<>>)
    /\ UNCHANGED <<locals, scope, globals, modGlobals, panicked, finished, hist>>
    /\ UNCHANGED <<bvars, dvars>>

\* (variant) the wrapper ends without the synthesized return
build_const_integer_return_missing ==
    /\ ~panicked /\ ~finished
    /\ stack # <<>> /\ stack[Len(stack)].node = "EntryPoint" /\ stack[Len(stack)].bodyDone
    /\ stack' = Returned(SubSeq(stack, 1, Len(stack) - 1))
    /\ last' = Event("EntryPointEnd", "", "Void", <<>>)
    /\ UNCHANGED <<locals, scope, globals, functions, modGlobals, builder, nodes,
                   panicked, finished, hist>>
    /\ UNCHANGED <<bvars, dvars>>

\* Instruction::EntryPoint, after the body: build_const_integer_return(i32, 0)
\* (compiler.rs:122, 559-563)
build_const_integer_return ==
    /\ ~panicked /\ ~finished
    /\ stack # <<>> /\ stack[Len(stack)].node = "EntryPoint" /\ stack[Len(stack)].bodyDone
    /\ functions' = Emit(functions, <<Instr("ret", "I32", 0, 0, <<Const("I32", 0)>>)>>)
    /\ stack' = Returned(SubSeq(stack, 1, Len(stack) - 1))
    /\ last' = Event("EntryPointEnd", "", "Void", <<>>)
    /\ UNCHANGED <<locals, scope, globals, modGlobals, builder, nodes, panicked,
                   finished, hist>>
    /\ UNCHANGED <<bvars, dvars>>

-----------------------------------------------------------------------------
(* Leaf nodes. *)

\* a leaf node was lowered: one node more, and the enclosing node has its child
Lowered(stk) ==
    /\ nodes' = nodes + 1
    /\ stack' = Returned(stk)

\* Compiler::emit_global_string_constant (compiler.rs:515-533): the global is
\* private, constant and unnamed; the pointer cast needs a positioned builder
emit_global_string_constant(text) == add_global("", text, TRUE)

\* Instruction::Return (compiler.rs:94-96, 432-449)
emit_return ==
    /\ CanLower
    /\ \E value \in ReturnValues :
          IF \/ value.node \notin {"Null", "Integer", "String"}
             \/ value.node # "Null" /\ builder = 0
          THEN Panic(Event("Return", "", value.kind, <<value>>))
          ELSE /\ modGlobals' = IF value.node = "String"
                                THEN emit_global_string_constant(value.name)
                                ELSE modGlobals
               /\ functions' =
                     IF value.node = "Null" THEN functions
                     ELSE Emit(functions, <<Instr("ret", value.kind, value.num, 0,
                            IF value.node = "String"
                            THEN <<GlobalPtr("String", Len(modGlobals) + 1)>>
                            ELSE <<Const(value.kind, value.num)>>)>>)
               /\ Lowered(stack)
               /\ last' = Event("Return", "", value.kind, <<value>>)
               /\ UNCHANGED <<locals, scope, globals, builder, panicked, finished, hist>>
    /\ UNCHANGED <<bvars, dvars>>

\* Instruction::String as a statement (compiler.rs:98-100)
codegen_String ==
    /\ CanLower
    /\ \E text \in StrLits :
          IF builder = 0
          THEN Panic(Event("String", text, "String", <<>>))
          ELSE /\ modGlobals' = emit_global_string_constant(text)
               /\ Lowered(stack)
               /\ last' = Event("String", text, "String", <<>>)
               /\ UNCHANGED <<locals, scope, globals, functions, builder, panicked,
                              finished, hist>>
    /\ UNCHANGED <<bvars, dvars>>

\* any other node form reaching codegen: todo!() (compiler.rs:125)
codegen_todo ==
    /\ CanLower
    /\ \E form \in {"Integer", "Boolean", "Null", "RefVar", "MutVar", "Param", "Value"} :
          Panic(Event(form, "", "Void", <<>>))
    /\ UNCHANGED <<bvars, dvars>>

\* Compiler::start: is_end() (compiler.rs:63-68, 586-588)
start_end ==
    /\ ~panicked /\ ~finished
    /\ stack = <<>>
    /\ finished' = TRUE
    /\ last' = Event("end", "", "Void", <<>>)
    /\ UNCHANGED <<locals, scope, globals, functions, modGlobals, builder, stack,
                   nodes, panicked, hist>>
    /\ UNCHANGED <<bvars, dvars>>

-----------------------------------------------------------------------------
(* Print / Println (compiler.rs:102-108, 129-136, 147-225). *)

\* Compiler::define_printf: the external variadic i32 (ptr, ...) declaration
WithPrintf(fns) == add_function(fns, "printf", "define_printf", "External")
define_printf ==
    IF get_function("printf") = 0 THEN WithPrintf(functions) ELSE functions

\* the callee emit_print takes: module.get_function("printf").unwrap()
Callee == IF get_function("printf") = 0 THEN Len(functions) + 1 ELSE get_function("printf")

\* one argument of emit_print aborts the process
ArgPanics(a) ==
    CASE a.node = "String" -> builder = 0
      [] a.node = "Integer" -> FALSE
      [] a.node = "RefVar" ->
            IF a.kind \in NumKinds THEN get_local_panics(a.name)
            ELSE IF a.kind \in {"String", "Bool"} THEN get_global_panics(a.name)
            ELSE FALSE
      [] OTHER -> TRUE

\* the values emit_print pushes for args[i..], ng module globals existing
RECURSIVE PushArgs(_, _, _)
PushArgs(args, i, ng) ==
    IF i > Len(args) THEN <<>>
    ELSE LET a == args[i] IN
         CASE a.node = "String" ->
                <<GlobalPtr("String", ng + 1)>> \o PushArgs(args, i + 1, ng + 1)
           [] a.node = "Integer" ->
                <<Const(a.kind, a.num)>> \o PushArgs(args, i + 1, ng)
           [] a.node = "RefVar" /\ a.kind \in NumKinds ->
                <<get_local(a.name)>> \o PushArgs(args, i + 1, ng)
           [] a.node = "RefVar" /\ a.kind \in {"String", "Bool"} ->
                <<get_global(a.name)>> \o PushArgs(args, i + 1, ng)
           [] OTHER -> PushArgs(args, i + 1, ng)

\* the unnamed constant globals emit_print adds for its literal strings
RECURSIVE LiteralGlobals(_, _)
LiteralGlobals(args, i) ==
    IF i > Len(args) THEN <<>>
    ELSE (IF args[i].node = "String"
          THEN <<[name |-> "", init |-> args[i].name, constant |-> TRUE]>>
          ELSE <<>>) \o LiteralGlobals(args, i + 1)

emit_print_panics(args) ==
    \/ \E i \in 1..Len(args) : ArgPanics(args[i])
    \/ builder = 0

\* (variant) an argument that cannot be lowered is left out instead of aborting
emit_print_skipping ==
    /\ CanLower
    /\ \E args \in ArgLists :
          IF builder = 0
          THEN Panic(Event("Print", "", "Void", args))
          ELSE /\ functions' = Emit(define_printf,
                     <<Instr("call", "I32", Callee, 0,
                             IF emit_print_panics(args) THEN <<>>
                             ELSE PushArgs(args, 1, Len(modGlobals)))>>)
               /\ modGlobals' = IF emit_print_panics(args) THEN modGlobals
                                ELSE modGlobals \o LiteralGlobals(args, 1)
               /\ Lowered(stack)
               /\ last' = Event("Print", "", "Void", args)
               /\ UNCHANGED <<locals, scope, globals, builder, panicked, finished, hist>>
    /\ UNCHANGED <<bvars, dvars>>

emit_print ==
    /\ CanLower
    /\ \E args \in ArgLists :
          IF emit_print_panics(args)
          THEN Panic(Event("Print", "", "Void", args))
          ELSE /\ functions' = Emit(define_printf,
                     <<Instr("call", "I32", Callee, 0, PushArgs(args, 1, Len(modGlobals)))>>)
               /\ modGlobals' = modGlobals \o LiteralGlobals(args, 1)
               /\ Lowered(stack)
               /\ last' = Event("Print", "", "Void", args)
               /\ UNCHANGED <<locals, scope, globals, builder, panicked, finished, hist>>
    /\ UNCHANGED <<bvars, dvars>>

-----------------------------------------------------------------------------
(* Variable declarations (compiler.rs:110-117, 227-430). *)

IsNull(value) == value.node = "Null"

\* the match on `kind` and `value` (compiler.rs:228-411) ends in todo!(),
\* unreachable!(), unimplemented!() or a failed unwrap of a builder call
ValuePanics(kind, value) ==
    CASE kind \in IntKinds ->
            \/ builder = 0
            \/ ~IsNull(value) /\ value.node # "Integer"
            \/ value.node = "Integer" /\ value.kind \notin IntKinds
      [] kind \in FloatKinds ->
            \/ builder = 0
            \/ ~IsNull(value) /\ value.node # "Integer"
            \/ value.node = "Integer" /\ value.kind \notin FloatKinds
      [] kind = "String" -> builder = 0 \/ (~IsNull(value) /\ value.node # "String")
      [] kind = "Bool" -> builder = 0 \/ value.node # "Boolean"
      [] OTHER -> TRUE

\* the frame a numeric binding is inserted into: self.locals[self.scope - 1],
\* as a 0-based index; at scope 0 the subtraction overflows (debug) or the
\* wrapped index is past the vector (release): the process aborts either way
BindFrame == scope - 1
BindPanics == BindFrame < 0 \/ BindFrame >= Len(locals)

\* (variant) a cell without initializer receives a non-zero constant
Stored_nonzero(kind, value) ==
    IF IsNull(value) THEN Const(kind, 1) ELSE Const(value.kind, value.num)

\* the constant stored in the cell: zero of the declared kind for Null, else the
\* literal with the literal's own kind (compiler.rs:283-311, 347-368)
Stored(kind, value) == IF IsNull(value) THEN Const(kind, 0) ELSE Const(value.kind, value.num)

\* alloca, store, load of a numeric declaration, each store and load align 4
NumericCell(kind, value) ==
    <<Instr("alloca", kind, 0, 0, <<>>),
      Instr("store", Stored(kind, value).kind, Stored(kind, value).pos, 4, <<>>),
      Instr("load", kind, 0, 4, <<>>)>>

\* Compiler::emit_global_string (compiler.rs:535-557): a named, private,
\* non-constant vector global; Null is lowered as the string "\0"
emit_global_string(text, name) == add_global(name, text, FALSE)
\* Compiler::emit_global_boolean (compiler.rs:490-513): 0 or 1
emit_global_boolean(num) == add_global("", IF num = 0 THEN "0" ELSE "1", FALSE)

\* the innermost open Block (0: none), and the history of what it declared
DeclBlock(stk) ==
    IF \E i \in 1..Len(stk) : stk[i].node = "Block"
    THEN SetMax({i \in 1..Len(stk) : stk[i].node = "Block"})
    ELSE 0
NoteNum(stk, name, v) ==
    IF DeclBlock(stk) = 0 THEN stk
    ELSE [stk EXCEPT ![DeclBlock(stk)].numDecl = Insert(@, name, v)]
NoteFlat(stk, name) ==
    IF DeclBlock(stk) = 0 THEN stk
    ELSE [stk EXCEPT ![DeclBlock(stk)].flatDecl = @ \cup {name}]

emit_variable_numeric(name, kind, value) ==
    IF ValuePanics(kind, value) \/ BindPanics
    THEN Panic(Event("Var", name, kind, <<value>>))
    ELSE /\ functions' = Emit(functions, NumericCell(kind, value))
         /\ locals' = [locals EXCEPT ![BindFrame + 1] =
                          Insert(@, name,
                                 Loaded(kind, builder, Len(functions[builder].body) + 3))]
         /\ Lowered(NoteNum(stack, name,
                             Loaded(kind, builder, Len(functions[builder].body) + 3)))
         /\ hist' = [hist EXCEPT !.numLeft = @ \ {name}, !.numDeclared = @ \cup {name}]
         /\ last' = Event("Var", name, kind, <<value>>)
         /\ UNCHANGED <<scope, globals, modGlobals, builder, panicked, finished>>

\* (variant) the binding goes to the current frame, as a scoped local would
emit_variable_flat_scoped(name, kind, value) ==
    IF ValuePanics(kind, value)
    THEN Panic(Event("Var", name, kind, <<value>>))
    ELSE /\ modGlobals' =
               IF kind = "String"
               THEN emit_global_string(IF IsNull(value) THEN "\\0" ELSE value.name, name)
               ELSE emit_global_boolean(value.num)
         /\ locals' = [locals EXCEPT ![scope + 1] =
                          Insert(@, name, GlobalPtr(kind, Len(modGlobals) + 1))]
         /\ Lowered(NoteFlat(stack, name))
         /\ hist' = [hist EXCEPT !.flatDeclared = @ \cup {name}]
         /\ last' = Event("Var", name, kind, <<value>>)
         /\ UNCHANGED <<globals, scope, functions, builder, panicked, finished>>

emit_variable_flat(name, kind, value) ==
    IF ValuePanics(kind, value)
    THEN Panic(Event("Var", name, kind, <<value>>))
    ELSE /\ modGlobals' =
               IF kind = "String"
               THEN emit_global_string(IF IsNull(value) THEN "\\0" ELSE value.name, name)
               ELSE emit_global_boolean(value.num)
         /\ globals' = Insert(globals, name, GlobalPtr(kind, Len(modGlobals) + 1))
         /\ Lowered(NoteFlat(stack, name))
         /\ hist' = [hist EXCEPT !.flatDeclared = @ \cup {name}]
         /\ last' = Event("Var", name, kind, <<value>>)
         /\ UNCHANGED <<locals, scope, functions, builder, panicked, finished>>

\* Compiler::emit_variable
emit_variable ==
    /\ CanLower
    /\ \E name \in VarNames, kind \in InKinds, value \in VarValues :
          IF kind \in NumKinds
          THEN emit_variable_numeric(name, kind, value)
          ELSE emit_variable_flat(name, kind, value)
    /\ UNCHANGED <<bvars, dvars>>

-----------------------------------------------------------------------------
(* FileBuilder::build (compiler.rs:697-772) and FileBuilder::opt (774-800).   *)
(* Each external effect is one step: a file written or removed, a process    *)
(* spawned.  A spawn of a tool that is installed succeeds and the tool then  *)
(* does its work; the output directory starts without the build's files.     *)

Name == "main"
Bc == "main.bc"
Ll == "main.ll"
Obj == "main.o"
Exe == "main"

OptLevels == {"None", "Low", "Mid", "Mcqueen"}
Linkings == {"Static", "Dynamic"}

\* compiler.rs:698-703
opt_level == CASE options.optimization = "None" -> "O0"
               [] options.optimization = "Low" -> "O1"
               [] options.optimization = "Mid" -> "O2"
               [] options.optimization = "Mcqueen" -> "O3"
\* compiler.rs:705-708
linking == IF options.linking = "Static" THEN "--static" ELSE "-dynamic"

Effect(ev, cmd, args) == [ev |-> ev, cmd |-> cmd, args |-> args]

\* the state after FileBuilder::new, for every configuration and environment
BuildInit ==
    /\ options \in [emit_llvm : BOOLEAN, emit_object : BOOLEAN, build : BOOLEAN,
                     optimization : OptLevels, linking : Linkings]
    /\ installed \in [clang : BOOLEAN, opt : BOOLEAN]
    /\ files = {}
    /\ pc = "start"
    /\ trace = <<>>
    /\ outcome = "running"

\* emit_llvm: module.print_to_file("<name>.ll"), return (compiler.rs:710-715)
build_emit_llvm ==
    /\ pc = "start" /\ options.emit_llvm
    /\ files' = files \cup {Ll}
    /\ trace' = Append(trace, Effect("write", Ll, <<>>))
    /\ pc' = "done"
    /\ outcome' = "returned"
    /\ UNCHANGED <<options, installed>>
    /\ UNCHANGED <<cvars, dvars>>

\* (variant) the bitcode is written whatever emit_llvm says
build_write_bitcode_unconditional ==
    /\ pc = "start"
    /\ files' = files \cup {Bc}
    /\ trace' = Append(trace, Effect("write", Bc, <<>>))
    /\ pc' = "spawn_clang"
    /\ UNCHANGED <<options, installed, outcome>>
    /\ UNCHANGED <<cvars, dvars>>

\* module.write_bitcode_to_path("<name>.bc") (compiler.rs:717-718)
build_write_bitcode ==
    /\ pc = "start" /\ ~options.emit_llvm
    /\ files' = files \cup {Bc}
    /\ trace' = Append(trace, Effect("write", Bc, <<>>))
    /\ pc' = "spawn_clang"
    /\ UNCHANGED <<options, installed, outcome>>
    /\ UNCHANGED <<cvars, dvars>>

\* (variant) the spawn result is unwrapped instead of matched
build_probe_clang_unwrap ==
    /\ pc = "spawn_clang"
    /\ trace' = Append(trace, Effect("spawn", "clang-18", <<>>))
    /\ IF installed.clang
       THEN pc' = "spawn_opt" /\ UNCHANGED outcome
       ELSE pc' = "done" /\ outcome' = "panicked"
    /\ UNCHANGED <<options, installed, files>>
    /\ UNCHANGED <<cvars, dvars>>

\* Command::new("clang-18").spawn(): Ok(child) => child.kill(), Err => the
\* error is logged and build returns (compiler.rs:720-722, 765-770)
build_probe_clang ==
    /\ pc = "spawn_clang"
    /\ trace' = Append(trace, Effect("spawn", "clang-18", <<>>))
    /\ IF installed.clang
       THEN pc' = "spawn_opt" /\ UNCHANGED outcome
       ELSE pc' = "log_clang" /\ UNCHANGED outcome
    /\ UNCHANGED <<options, installed, files>>
    /\ UNCHANGED <<cvars, dvars>>

\* logging::log(ERROR, "Compilation failed. Clang version 17 is not installed.")
build_log_clang ==
    /\ pc = "log_clang"
    /\ trace' = Append(trace, Effect("log", "ERROR",
                    <<"Compilation failed. Clang version 17 is not installed.">>))
    /\ pc' = "done"
    /\ outcome' = "reported"
    /\ UNCHANGED <<options, installed, files>>
    /\ UNCHANGED <<cvars, dvars>>

\* FileBuilder::opt: Command::new("opt").spawn() (compiler.rs:775-777, 796-798)
opt_probe ==
    /\ pc = "spawn_opt"
    /\ trace' = Append(trace, Effect("spawn", "opt", <<>>))
    /\ pc' = IF installed.opt THEN "run_opt" ELSE "log_opt"
    /\ UNCHANGED <<options, installed, files, outcome>>
    /\ UNCHANGED <<cvars, dvars>>

\* (variant) the error path removes the bitcode file before returning
build_log_opt_cleanup ==
    /\ pc = "log_opt"
    /\ trace' = trace \o <<Effect("remove", Bc, <<>>),
                            Effect("log", "ERROR",
                              <<"Compilation failed. LLVM Optimizer is not installed.">>)>>
    /\ files' = files \ {Bc}
    /\ pc' = "done"
    /\ outcome' = "reported"
    /\ UNCHANGED <<options, installed>>
    /\ UNCHANGED <<cvars, dvars>>

\* Err(error) => logging::log(ERROR, &error); return (compiler.rs:737-740, 756-759)
build_log_opt ==
    /\ pc = "log_opt"
    /\ trace' = Append(trace, Effect("log", "ERROR",
                    <<"Compilation failed. LLVM Optimizer is not installed.">>))
    /\ pc' = "done"
    /\ outcome' = "reported"
    /\ UNCHANGED <<options, installed, files>>
    /\ UNCHANGED <<cvars, dvars>>

\* the pass list of FileBuilder::opt (compiler.rs:779-791); opt is given no
\* output file, so it leaves <name>.bc as it is
opt_run ==
    /\ pc = "run_opt"
    /\ trace' = Append(trace, Effect("run", "opt",
                    <<"-p=" \o opt_level, "-p=globalopt", "-p=globaldce", "-p=dce",
                      "-p=instcombine", "-p=strip-dead-prototypes", "-p=strip",
                      "-p=mem2reg", "-p=memcpyopt", Bc>>))
    /\ pc' = "run_clang"
    /\ UNCHANGED <<options, installed, files, outcome>>
    /\ UNCHANGED <<cvars, dvars>>

\* the driver run of either branch (compiler.rs:724-736, 742-755)
build_run_clang ==
    /\ pc = "run_clang"
    /\ IF options.build
       THEN /\ trace' = Append(trace, Effect("run", "clang-18",
                           <<"-opaque-pointers", linking, "-ffast-math", Bc, "-o", Exe>>))
            /\ files' = IF Bc \in files THEN files \cup {Exe} ELSE files
       ELSE /\ trace' = Append(trace, Effect("run", "clang-18",
                           <<"-opaque-pointers", linking, "-ffast-math", "-c", Bc,
                             "-o", Obj>>))
            /\ files' = IF Bc \in files THEN files \cup {Obj} ELSE files
    /\ pc' = "remove_bc"
    /\ UNCHANGED <<options, installed, outcome>>
    /\ UNCHANGED <<cvars, dvars>>

\* (variant) the bitcode file is left behind
build_remove_file_kept ==
    /\ pc = "remove_bc"
    /\ pc' = "done"
    /\ outcome' = "returned"
    /\ UNCHANGED <<options, installed, files, trace>>
    /\ UNCHANGED <<cvars, dvars>>

\* remove_file("<name>.bc").unwrap() (compiler.rs:763)
build_remove_file ==
    /\ pc = "remove_bc"
    /\ IF Bc \in files
       THEN /\ files' = files \ {Bc}
            /\ trace' = Append(trace, Effect("remove", Bc, <<>>))
            /\ outcome' = "returned"
       ELSE /\ outcome' = "panicked"
            /\ UNCHANGED <<files, trace>>
    /\ pc' = "done"
    /\ UNCHANGED <<options, installed>>
    /\ UNCHANGED <<cvars, dvars>>

BuildNext ==
    \/ build_emit_llvm
    \/ build_write_bitcode
    \/ build_probe_clang
    \/ build_log_clang
    \/ opt_probe
    \/ build_log_opt
    \/ opt_run
    \/ build_run_clang
    \/ build_remove_file

\* no build is running
BuildIdle ==
    /\ options = [emit_llvm |-> FALSE, emit_object |-> FALSE, build |-> FALSE,
                  optimization |-> "None", linking |-> "Static"]
    /\ installed = [clang |-> TRUE, opt |-> TRUE]
    /\ files = {}
    /\ pc = "idle"
    /\ trace = <<>>
    /\ outcome = "running"

-----------------------------------------------------------------------------
(* Diagnostic (diagnostic.rs) and ThrushError (error.rs).  A String is the   *)
(* sequence of its characters.                                               *)

Whitespace == {" ", "\t"}

\* str::trim: without the leading and the trailing whitespace
RECURSIVE TrimStart(_)
TrimStart(str) ==
    IF str # <<>> /\ str[1] \in Whitespace THEN TrimStart(Tail(str)) ELSE str
RECURSIVE TrimEnd(_)
TrimEnd(str) ==
    IF str # <<>> /\ str[Len(str)] \in Whitespace
    THEN TrimEnd(SubSeq(str, 1, Len(str) - 1))
    ELSE str
Trim(str) == TrimEnd(TrimStart(str))

Repeat(c, n) == [i \in 1..n |-> c]

\* the lines a source file may hold
LineTexts == {<<"a">>, <<" ", "b">>, <<"c", " ", "d", " ">>}
SourceFiles == UNION {[1..n -> LineTexts] : n \in 0..MaxLines}

\* ThrushError and ThrushErrorKind (error.rs:3-22)
ErrorCategories == {"Compile", "Parse", "Lex", "Scope", "None"}
ErrorKinds == {"TooManyArguments", "SyntaxError", "UnreachableNumber", "ParsedNumber",
               "UnknownChar", "UnreachableVariable", "VariableNotDefined"}
ThrushError(category, kind, line) == [category |-> category, kind |-> kind, line |-> line]
Errors ==
    {ThrushError(c, k, l) : c \in {"Parse", "Lex", "Scope"}, k \in ErrorKinds,
                            l \in 0..(MaxLines + 1)}
      \cup {ThrushError("Compile", "", 0), ThrushError("None", "", 0)}

\* Diagnostic::new (diagnostic.rs:14-26)
DiagInit ==
    /\ lines \in SourceFiles
    /\ buffer = <<>>
    /\ drawer = <<>>
    /\ printed = <<>>
    /\ reports = <<>>
    /\ dpanicked = FALSE

\* (variant) every lex, parse or scope failure is rendered, whatever its kind
Rendered_any_kind(error) == error.category \in {"Parse", "Lex", "Scope"}

\* the match of Diagnostic::report (diagnostic.rs:29-39)
Rendered(error) ==
    \/ /\ error.category = "Parse"
       /\ error.kind \in {"ParsedNumber", "UnreachableNumber", "SyntaxError",
                          "UnreachableVariable", "VariableNotDefined"}
    \/ /\ error.category = "Lex"
       /\ error.kind \in {"SyntaxError", "ParsedNumber", "UnreachableNumber",
                          "UnknownChar"}

\* the line print_report takes (diagnostic.rs:45-49), as a 1-based position in
\* `lines`; 0: the process aborts (lines.len() - 1 overflows on an empty
\* file, line - 1 overflows for line 0, lines[line - 1] is past the vector)
SourceIndex(line) ==
    IF Len(lines) = 0 THEN 0
    ELSE IF line = Len(lines) - 1 THEN Len(lines)
    ELSE IF line - 1 < 0 \/ line - 1 >= Len(lines) THEN 0
    ELSE (line - 1) + 1

\* Diagnostic::print_header (diagnostic.rs:75-89): two println!
print_header(line) ==
    <<[what |-> "header", line |-> line, text |-> <<>>],
      [what |-> "error", line |-> line, text |-> <<>>]>>

\* the buffer print_report prints (diagnostic.rs:51-62)
ReportBuffer(text) ==
    <<" ", " ">> \o text \o <<"\n">> \o Repeat("^", Len(text) + 4)

\* Diagnostic::print_report (diagnostic.rs:42-73)
print_report(line) ==
    IF SourceIndex(line) = 0
    THEN /\ printed' = printed \o print_header(line)
         /\ dpanicked' = TRUE
         /\ UNCHANGED <<lines, buffer, drawer>>
    ELSE /\ printed' = printed \o print_header(line) \o
                <<[what |-> "source", line |-> line,
                   text |-> ReportBuffer(Trim(lines[SourceIndex(line)]))],
                  [what |-> "help", line |-> line, text |-> <<>>]>>
         /\ buffer' = <<>>
         /\ drawer' = <<>>
         /\ UNCHANGED <<lines, dpanicked>>

\* Diagnostic::report, for an error it renders (diagnostic.rs:30-36)
report_rendered ==
    /\ ~dpanicked /\ Len(reports) < MaxReports
    /\ \E error \in Errors :
          /\ Rendered(error)
          /\ print_report(error.line)
          /\ reports' = Append(reports, error)
    /\ UNCHANGED <<cvars, bvars>>

\* Diagnostic::report, for any other error (diagnostic.rs:38)
report_ignored ==
    /\ ~dpanicked /\ Len(reports) < MaxReports
    /\ \E error \in Errors :
          /\ ~Rendered(error)
          /\ reports' = Append(reports, error)
    /\ UNCHANGED <<lines, buffer, drawer, printed, dpanicked>>
    /\ UNCHANGED <<cvars, bvars>>

DiagNext ==
    \/ report_rendered
    \/ report_ignored

\* no Diagnostic is in use
DiagIdle ==
    /\ lines = <<>>
    /\ buffer = <<>>
    /\ drawer = <<>>
    /\ printed = <<>>
    /\ reports = <<>>
    /\ dpanicked = FALSE

-----------------------------------------------------------------------------

CompilerNext ==
    \/ codegen_Block_enter
    \/ codegen_Block_exit
    \/ emit_function
    \/ emit_function_end
    \/ emit_main
    \/ build_const_integer_return
    \/ emit_return
    \/ codegen_String
    \/ emit_print
    \/ emit_variable
    \/ codegen_todo
    \/ start_end

vars == <<cvars, bvars, dvars>>

\* the code generator, lowering every unit within the bounds
Init == CompilerInit /\ BuildIdle /\ DiagIdle
Next == CompilerNext
Spec == Init /\ [][Next]_vars

\* one FileBuilder::build run, for every configuration and tool presence
InitBuild == BuildInit /\ CompilerInit /\ DiagIdle
NextBuild == BuildNext
SpecBuild == InitBuild /\ [][NextBuild]_vars

\* one Diagnostic, for every source file and every error reported to it
InitDiag == DiagInit /\ CompilerInit /\ BuildIdle
NextDiag == DiagNext
SpecDiag == InitDiag /\ [][NextDiag]_vars

-----------------------------------------------------------------------------
(* Vocabulary of the properties. *)

\* this step lowered a node of form ev / aborted while lowering one
LoweredStep(ev) == last'.ev = ev /\ nodes' = nodes + 1 /\ ~panicked'
AbortedStep(ev) == last'.ev = ev /\ panicked' /\ ~panicked
AttemptedStep(ev) == LoweredStep(ev) \/ AbortedStep(ev)

\* the open Blocks that declared the numeric name n, innermost last
DeclaringBlocks(n) ==
    {i \in 1..Len(stack) : stack[i].node = "Block" /\ n \in DOMAIN stack[i].numDecl}
\* the value the nearest enclosing declaration of n loaded
LexicalValue(n) == stack[SetMax(DeclaringBlocks(n))].numDecl[n]

\* the instruction emitted last at the builder's position
LastEmitted(fns, b) == fns[b].body[Len(fns[b].body)]

-----------------------------------------------------------------------------
(* Symbol store: C1, C2, C3. *)

\* C1: once the Block that declared a numeric name has been left, and the name
\* is neither declared again nor declared by a Block that is still open, a
\* numeric reference to the name resolves at no later point, at any depth.
C1_NumericLifetimeIsLexical ==
    \A n \in hist.numLeft : DeclaringBlocks(n) = {} => get_local_panics(n)

\* C2: a string or boolean declaration, at any depth, writes its binding to the
\* flat map and to no frame; the binding then stays in the flat map, and every
\* later print of string / boolean references to declared names resolves.
C2_FlatBindingsOutliveBlocks ==
    [][/\ ~panicked' => hist'.flatDeclared \subseteq DOMAIN globals'
       /\ \A n \in VarNames :
             (LoweredStep("Var") /\ last'.name = n /\ last'.kind \in {"String", "Bool"})
                => /\ n \in DOMAIN globals'
                   /\ globals'[n].kind = last'.kind
                   /\ locals' = locals
       /\ (/\ AttemptedStep("Print")
           /\ last'.args # <<>>
           /\ \A i \in 1..Len(last'.args) :
                 /\ last'.args[i].node = "RefVar"
                 /\ last'.args[i].kind \in {"String", "Bool"}
                 /\ last'.args[i].name \in hist.flatDeclared)
            => /\ ~panicked'
               /\ LastEmitted(functions', builder').op = "call"
               /\ LastEmitted(functions', builder').args =
                     [i \in 1..Len(last'.args) |-> globals[last'.args[i].name]]]_vars

\* a string / boolean name declared in a Block that has been left is printed,
\* from inside another Block
C2_Witness ==
    /\ ~panicked /\ last.ev = "Print" /\ scope >= 1
    /\ Len(last.args) = 1
    /\ last.args[1].node = "RefVar" /\ last.args[1].kind = "String"
    /\ last.args[1].name \in hist.flatLeft

\* C3: a numeric reference resolves to the binding of the nearest enclosing
\* Block that declared the name earlier: a print of the reference does not
\* abort and passes the value that declaration loaded to the print call.
C3_NumericReferenceSeesNearestDeclaration ==
    [][\A n \in VarNames, k \in InNumKinds :
          (/\ AttemptedStep("Print")
           /\ last'.args = <<RefVar(n, k)>>
           /\ DeclaringBlocks(n) # {})
            => /\ ~panicked'
               /\ LastEmitted(functions', builder').op = "call"
               /\ LastEmitted(functions', builder').args = <<LexicalValue(n)>>]_vars

\* the last three instructions at the builder's position
Tail3(fns, b) == SubSeq(fns[b].body, Len(fns[b].body) - 2, Len(fns[b].body))
\* the frames (positions in the vector) that bind name n to value v
FramesBinding(lcls, n, v) ==
    {f \in 1..Len(lcls) : n \in DOMAIN lcls[f] /\ lcls[f][n] = v}

\* C11: a numeric declaration without initializer that is lowered allocates a
\* cell of the declared kind, stores the zero of the declared kind in it and
\* binds the name to the value loaded back from that cell.
C11_NoInitializerBindsZero ==
    [][\A n \in VarNames, k \in InNumKinds :
          (/\ LoweredStep("Var")
           /\ last' = Event("Var", n, k, <<Null>>))
            => /\ Len(functions'[builder].body) = Len(functions[builder].body) + 3
               /\ functions' = Emit(functions, Tail3(functions', builder))
               /\ Tail3(functions', builder)[1].op = "alloca"
               /\ Tail3(functions', builder)[1].kind = k
               /\ Tail3(functions', builder)[2].op = "store"
               /\ Tail3(functions', builder)[2].kind = k
               /\ Tail3(functions', builder)[2].num = 0
               /\ Tail3(functions', builder)[3].op = "load"
               /\ Tail3(functions', builder)[3].kind = k
               /\ FramesBinding(locals', n,
                     Loaded(k, builder, Len(functions'[builder].body))) # {}]_vars

\* a float declared without initializer inside a Block: the cell holds 0.0
\* and the name is bound to the load that closes the function's body
C11_Witness ==
    /\ ~panicked /\ scope >= 1 /\ builder # 0
    /\ last.ev = "Var" /\ last.kind \in FloatKinds /\ last.args = <<Null>>
    /\ Len(functions[builder].body) >= 3
    /\ Tail3(functions, builder)[2] = Instr("store", last.kind, 0, 4, <<>>)
    /\ FramesBinding(locals, last.name,
          Loaded(last.kind, builder, Len(functions[builder].body))) # {}

\* the Blocks that are open (entered and not yet left)
OpenBlocks == {i \in 1..Len(stack) : stack[i].node = "Block"}

\* C13: between node lowerings the frame stack holds scope + 1 frames and scope
\* is the number of open Blocks: one frame and scope 0 at the start, entering a
\* Block pushes one empty frame and adds one to scope, leaving it pops the last
\* frame and takes one from scope, so scope and the depth are back at their
\* values from before the Block; a lowered unit ends at scope 0 with one frame.
C13_FrameStackTracksScope ==
    [][/\ last.ev = "init" => (Len(locals) = 1 /\ scope = 0)
       /\ ~panicked' =>
             /\ Len(locals') = scope' + 1
             /\ scope' = Cardinality(OpenBlocks')
             /\ finished' => (scope' = 0 /\ Len(locals') = 1)
       /\ LoweredStep("Block") =>
             (scope' = scope + 1 /\ locals' = Append(locals, EmptyFrame))
       /\ (last'.ev = "BlockExit" /\ Len(stack') = Len(stack) - 1) =>
             /\ scope' = scope - 1
             /\ Len(locals') = Len(locals) - 1
             /\ \A f \in 1..Len(locals') : locals'[f] = locals[f]
       /\ (~panicked' /\ ~LoweredStep("Block")
             /\ ~(last'.ev = "BlockExit" /\ Len(stack') = Len(stack) - 1)) =>
             (scope' = scope /\ Len(locals') = Len(locals))]_vars

\* a Block nested in a Block has just been left: back at scope 1, two frames
C13_Witness ==
    /\ ~panicked /\ last.ev = "BlockExit"
    /\ scope = 1 /\ Len(locals) = 2 /\ Cardinality(OpenBlocks) = 1

\* the initializer is one the match of emit_variable lowers for kind k: none,
\* or a literal of the same family (integer / float)
LowerableInitializer(k, value) ==
    \/ value = Null
    \/ /\ value.node = "Integer"
       /\ (k \in IntKinds) = (value.kind \in IntKinds)
       /\ value.kind \in NumKinds

\* C14: a numeric declaration lowered at scope s (inside a function, so that
\* instructions can be emitted), for every s >= 0, does not abort, binds the
\* name in frame s, the innermost one, and leaves the other frames and the
\* flat map as they were.
C14_NumericBindsInCurrentFrame ==
    [][\A n \in VarNames, k \in InNumKinds :
          (/\ AttemptedStep("Var")
           /\ last'.name = n /\ last'.kind = k
           /\ LowerableInitializer(k, last'.args[1])
           /\ builder # 0)
            => /\ ~panicked'
               /\ Len(locals') = Len(locals)
               /\ n \in DOMAIN locals'[scope + 1]
               /\ locals'[scope + 1][n] =
                     Loaded(k, builder, Len(functions'[builder].body))
               /\ \A f \in 1..Len(locals) : f # scope + 1 => locals'[f] = locals[f]
               /\ globals' = globals]_vars

-----------------------------------------------------------------------------
(* Runtime surface: C7, C8. *)

EntryFunctions == {i \in 1..Len(functions) : functions[i].origin = "EntryPoint"}
PrintfDeclarations == {i \in 1..Len(functions) : functions[i].origin = "define_printf"}
PrintCalls ==
    {c \in UNION {{<<f, j>> : j \in 1..Len(functions[f].body)} : f \in 1..Len(functions)} :
        functions[c[1]].body[c[2]].op = "call"}

\* ret i32 0
ReturnsSuccess(instr) ==
    instr.op = "ret" /\ instr.kind = "I32" /\ instr.args = <<Const("I32", 0)>>
EndsWithSuccess(fn) == fn.body # <<>> /\ ReturnsSuccess(fn.body[Len(fn.body)])

\* this step is the end of an entry wrapper's lowering
EntryPointEndStep == last'.ev = "EntryPointEnd" /\ Len(stack') = Len(stack) - 1

\* C7 as stated: every unit whose lowering finished has exactly one entry
\* function, and that function's instructions end with ret i32 0.
C7_ExactlyOneEntryPerUnit ==
    finished => /\ Cardinality(EntryFunctions) = 1
                /\ \A i \in EntryFunctions : EndsWithSuccess(functions[i])

\* C7 as amended: one entry function is generated per entry wrapper lowered and
\* by nothing else, and the lowering of a wrapper ends by appending ret i32 0
\* at the builder's position, which is the end of the wrapper's own entry
\* function when no Function or EntryPoint node was lowered inside its body.
C7_OneEntryPerWrapperEndingInSuccess ==
    [][/\ ~panicked' =>
             Cardinality(EntryFunctions') =
                Cardinality(EntryFunctions) + (IF LoweredStep("EntryPoint") THEN 1 ELSE 0)
       /\ EntryPointEndStep =>
             /\ EndsWithSuccess(functions'[builder])
             /\ functions' = Emit(functions, <<LastEmitted(functions', builder)>>)
             /\ ~stack[Len(stack)].inner =>
                   /\ builder = stack[Len(stack)].fn
                   /\ functions[builder].origin = "EntryPoint"]_vars

\* EntryPoint(Block([])) alone: one entry function, its body only the return
C7_Witness ==
    /\ finished /\ nodes = 2
    /\ Len(functions) = 1 /\ EntryFunctions = {1}
    /\ functions[1].body = <<Instr("ret", "I32", 0, 0, <<Const("I32", 0)>>)>>

\* C8: the print support function is declared at most once, exactly once as
\* soon as one print call has been emitted (so before the first call).
C8_PrintfDeclaredOnce ==
    /\ Cardinality(PrintfDeclarations) <= 1
    /\ PrintCalls # {} => Cardinality(PrintfDeclarations) = 1

-----------------------------------------------------------------------------
(* References in print arguments: C15. *)

\* the arguments of the call this step emitted
EmittedCallArgs == LastEmitted(functions', builder').args
\* the frames that bind the name n
FramesWith(n) == {f \in 1..Len(locals) : n \in DOMAIN locals[f]}

\* C15: a reference in a print argument is looked up by its kind: a numeric
\* reference in the frame stack only, a string or boolean reference in the flat
\* map only.  A reference whose name its store does not hold, and so any
\* reference whose name neither store holds, aborts codegen: no call is emitted
\* for the node and no node is lowered afterwards.  A reference that resolves
\* passes the value its store holds.
C15_ReferenceResolvedByKind ==
    [][/\ panicked => UNCHANGED vars
       /\ \A n \in VarNames, k \in InNumKinds \cup {"String", "Bool"} :
             (/\ AttemptedStep("Print")
              /\ \E i \in DOMAIN last'.args : last'.args[i] = RefVar(n, k))
               => /\ (k \in NumKinds /\ FramesWith(n) = {}) => panicked'
                  /\ (k \notin NumKinds /\ n \notin DOMAIN globals) => panicked'
                  /\ panicked' => (PrintCalls' = {} /\ nodes' # nodes + 1)
                  /\ ~panicked' =>
                        /\ LastEmitted(functions', builder').op = "call"
                        /\ IF k \in NumKinds
                           THEN \E f \in FramesWith(n), j \in DOMAIN EmittedCallArgs :
                                   EmittedCallArgs[j] = locals[f][n]
                           ELSE \E j \in DOMAIN EmittedCallArgs :
                                   EmittedCallArgs[j] = globals[n]]_vars

\* a print of a numeric reference to a name that no declaration ever bound,
\* in either store, has aborted codegen
C15_Witness ==
    /\ panicked /\ last.ev = "Print"
    /\ Len(last.args) = 1
    /\ last.args[1].node = "RefVar" /\ last.args[1].kind \in NumKinds
    /\ last.args[1].name \notin hist.numDeclared \cup hist.flatDeclared

-----------------------------------------------------------------------------
(* Build orchestrator: C4, C5, C6, C10. *)

At(ev, cmd) == {i \in 1..Len(trace) : trace[i].ev = ev /\ trace[i].cmd = cmd}
Precedes(A, B) == \A b \in B : \E a \in A : a < b
Ended == pc = "done"
LastEffect == trace[Len(trace)]
OptMissing == "Compilation failed. LLVM Optimizer is not installed."
ClangMissing == "Compilation failed. Clang version 17 is not installed."
\* the effects on <name>.bc
OnBitcode == At("write", Bc) \cup At("remove", Bc)

\* C4: emit_llvm unset and both tools installed: the build returns with
\* <name>.bc deleted, after the driver ran, and with one artifact left, <name>
\* if build is set and <name>.o otherwise.
C4_SuccessLeavesOneArtifact ==
    (~options.emit_llvm /\ installed.clang /\ installed.opt) =>
        /\ Precedes(At("run", "clang-18"), At("remove", Bc))
        /\ Ended => /\ outcome = "returned"
                    /\ Bc \notin files
                    /\ At("remove", Bc) # {}
                    /\ files = {IF options.build THEN Exe ELSE Obj}

C4_Witness ==
    /\ Ended /\ ~options.emit_llvm /\ installed.clang /\ installed.opt
    /\ options.build /\ files = {Exe} /\ LastEffect = Effect("remove", Bc, <<>>)

\* C5: emit_llvm set: whatever the other flags and the tools installed, the
\* build writes <name>.ll and returns; no tool is spawned or run and <name>.bc
\* never exists.
C5_EmitLlvmStopsAfterText ==
    options.emit_llvm =>
        /\ Bc \notin files /\ OnBitcode = {}
        /\ \A i \in 1..Len(trace) : trace[i].ev \notin {"spawn", "run"}
        /\ pc \in {"start", "done"}
        /\ Ended => /\ trace = <<Effect("write", Ll, <<>>)>>
                    /\ files = {Ll}
                    /\ outcome = "returned"

C5_Witness ==
    /\ Ended /\ options.emit_llvm /\ options.build /\ options.emit_object
    /\ ~installed.clang /\ ~installed.opt
    /\ files = {Ll}

\* C6 as stated: the optimizer is probed before the driver is probed or run,
\* and with the optimizer missing the build ends reporting that, the driver
\* neither probed nor run and <name>.bc written once and left alone.
C6_OptimizerProbedFirst ==
    ~options.emit_llvm =>
        /\ Precedes(At("write", Bc), At("spawn", "opt"))
        /\ Precedes(At("spawn", "opt"), At("spawn", "clang-18") \cup At("run", "clang-18"))
        /\ (Ended /\ ~installed.opt) =>
              /\ outcome = "reported"
              /\ LastEffect = Effect("log", "ERROR", <<OptMissing>>)
              /\ At("spawn", "clang-18") \cup At("run", "clang-18") = {}
              /\ Bc \in files /\ OnBitcode = At("write", Bc)
              /\ Cardinality(OnBitcode) = 1

\* C6 as amended: after <name>.bc is written the driver is probed first and the
\* optimizer second, both before the driver is run; with the driver installed
\* and the optimizer missing the build ends reporting the missing optimizer,
\* the driver never run and <name>.bc written once and left alone; with the
\* driver missing it ends reporting the missing driver, the optimizer never
\* probed.
C6_DriverProbedFirst ==
    ~options.emit_llvm =>
        /\ Precedes(At("write", Bc), At("spawn", "clang-18"))
        /\ Precedes(At("spawn", "clang-18"), At("spawn", "opt"))
        /\ Precedes(At("spawn", "opt"), At("run", "clang-18"))
        /\ (Ended /\ installed.clang /\ ~installed.opt) =>
              /\ outcome = "reported"
              /\ LastEffect = Effect("log", "ERROR", <<OptMissing>>)
              /\ At("run", "clang-18") = {} /\ At("run", "opt") = {}
              /\ Bc \in files /\ OnBitcode = At("write", Bc)
              /\ Cardinality(OnBitcode) = 1
        /\ (Ended /\ ~installed.clang) =>
              /\ outcome = "reported"
              /\ LastEffect = Effect("log", "ERROR", <<ClangMissing>>)
              /\ At("spawn", "opt") = {}
              /\ At("run", "clang-18") = {} /\ At("run", "opt") = {}
              /\ Bc \in files /\ Cardinality(OnBitcode) = 1

C6_Witness ==
    /\ Ended /\ ~options.emit_llvm /\ installed.clang /\ ~installed.opt
    /\ LastEffect = Effect("log", "ERROR", <<OptMissing>>)
    /\ Bc \in files

\* no tool is run twice, a tool is run only after its own probe found it, and
\* the optimizer runs before the driver
C10_RunsOnceInOrder ==
    /\ Cardinality(At("run", "opt")) <= 1
    /\ Cardinality(At("run", "clang-18")) <= 1
    /\ Cardinality(At("spawn", "opt")) <= 1
    /\ Cardinality(At("spawn", "clang-18")) <= 1
    /\ At("run", "opt") # {} => installed.opt
    /\ At("run", "clang-18") # {} => installed.clang
    /\ Precedes(At("spawn", "opt"), At("run", "opt"))
    /\ Precedes(At("spawn", "clang-18"), At("run", "clang-18"))
    /\ Precedes(At("run", "opt"), At("run", "clang-18"))

\* C10 as stated: nothing is retried, and for every combination of flags a
\* missing optimizer or driver ends the build in a reported error.
C10_AbsentToolAlwaysReported ==
    /\ C10_RunsOnceInOrder
    /\ outcome # "panicked"
    /\ (Ended /\ (~installed.opt \/ ~installed.clang)) => outcome = "reported"

\* C10 as amended: nothing is retried; with emit_llvm unset a missing optimizer
\* or driver ends the build in a reported error, never in a panic; with
\* emit_llvm set no tool is needed and the build returns whatever is installed.
C10_NeededToolAbsentIsReported ==
    /\ C10_RunsOnceInOrder
    /\ outcome # "panicked"
    /\ (Ended /\ (~installed.opt \/ ~installed.clang)) =>
          outcome = (IF options.emit_llvm THEN "returned" ELSE "reported")
    /\ outcome = "reported" =>
          /\ Ended
          /\ LastEffect.ev = "log"
          /\ LastEffect.args = <<IF installed.clang THEN OptMissing ELSE ClangMissing>>

C10_Witness ==
    /\ Ended /\ ~options.emit_llvm /\ ~installed.clang /\ installed.opt
    /\ outcome = "reported"
    /\ trace = <<Effect("write", Bc, <<>>), Effect("spawn", "clang-18", <<>>),
                 Effect("log", "ERROR", <<ClangMissing>>)>>

-----------------------------------------------------------------------------
(* Diagnostic reporter: C9. *)

\* C9: a report for line L of a file of n lines, 1 <= L <= n, does not abort
\* and prints the trimmed text of line L.
C9_ReportShowsRequestedLine ==
    \A i \in 1..Len(printed) :
        (printed[i].what = "header" /\ printed[i].line \in 1..Len(lines)) =>
            /\ ~dpanicked
            /\ i + 2 <= Len(printed)
            /\ printed[i + 2].what = "source"
            /\ printed[i + 2].text = ReportBuffer(Trim(lines[printed[i].line]))

\* the whitelist of sub-kinds per category
ParseWhitelist ==
    {"ParsedNumber", "UnreachableNumber", "SyntaxError", "UnreachableVariable",
     "VariableNotDefined"}
LexWhitelist == {"SyntaxError", "ParsedNumber", "UnreachableNumber", "UnknownChar"}
Whitelisted(error) ==
    \/ error.category = "Parse" /\ error.kind \in ParseWhitelist
    \/ error.category = "Lex" /\ error.kind \in LexWhitelist
\* this step is a call of Diagnostic::report with the given error
ReportStep(error) == reports' = Append(reports, error)

\* C12: report prints something only for a parse or lex failure whose kind is
\* on the whitelist of its category, and then starts with the header of the
\* error's line; for every other error (scope, compile, None, a kind off the
\* whitelist) it prints nothing and leaves lines, buffer and drawer as they were.
C12_OnlyWhitelistedErrorsRendered ==
    [][\A error \in Errors :
          ReportStep(error) =>
             IF Whitelisted(error)
             THEN /\ Len(printed') >= Len(printed) + 2
                  /\ SubSeq(printed', 1, Len(printed)) = printed
                  /\ printed'[Len(printed) + 1].what = "header"
                  /\ printed'[Len(printed) + 1].line = error.line
             ELSE UNCHANGED <<lines, buffer, drawer, printed, dpanicked>>]_vars

\* a parse failure of kind TooManyArguments was reported on a file that has
\* the line: nothing was printed
C12_Witness ==
    /\ reports # <<>>
    /\ reports[Len(reports)].category = "Parse"
    /\ reports[Len(reports)].kind = "TooManyArguments"
    /\ reports[Len(reports)].line \in 1..Len(lines)
    /\ printed = <<>> /\ ~dpanicked

====
